---- MODULE Spec2Model ----
(***************************************************************************)
(* Nexus Analytics front end: the browser-side state machines of the       *)
(* login forms, local storage, the route guard, the AuthProvider context,  *)
(* the useApiCall data hook and the pages that fetch on their own.         *)
(* Every handler is cut at its await points: the code up to an await is    *)
(* one action, the continuation after the awaited response is another.     *)
(***************************************************************************)
EXTENDS Integers, Sequences, FiniteSets, TLC

\* ---------------------------------------------------------------- bounds
\* number of access tokens the /token endpoint hands out in one behaviour
MaxLogins == 2
\* number of AuthProvider.login / LoginPage submissions awaiting /token at once
MaxPending == 1
\* number of fetchConnections calls of the Shopify page, and of checkSystemHealth
\* calls of the reports page, in flight at once
MaxFetches == 2
\* number of checkSystemHealth calls of one ReportsPage instance
MaxChecks == 4
\* number of fetchData calls of one useApiCall instance
MaxRequests == 3

\* ---------------------------------------------------------------- values
\* JavaScript null: localStorage.getItem of a missing key, an unset useState
Null == "null"

Roles == {"admin", "user"}

\* the n-th access token issued, by the role of the account it was issued to
TokenTable ==
  [admin |-> <<"a1", "a2", "a3", "a4", "a5", "a6">>,
   user  |-> <<"u1", "u2", "u3", "u4", "u5", "u6">>]

Tokens == {TokenTable[r][n] : r \in Roles, n \in 1..6}

\* the role /me reports for a token: that of the account it was issued to
RoleOf(t) == IF t \in {TokenTable["admin"][n] : n \in 1..6} THEN "admin" ELSE "user"

\* HTTP statuses the back end answers with
StatusCodes == {200, 401, 403, 500}

\* Response.ok: status in the range 200-299
IsOk(status) == status >= 200 /\ status <= 299

\* what an awaited fetch can do: reject (network error), or resolve with a
\* response whose body does (json = TRUE) or does not parse as JSON
Outcomes ==
  {[kind |-> "reject", status |-> 0, json |-> FALSE]} \cup
  {[kind |-> "response", status |-> s, json |-> j] : s \in StatusCodes, j \in BOOLEAN}

\* an awaited "fetch then response.json()" ran through without throwing
Parsed(o) == o.kind = "response" /\ o.json

StorageKeys == {"token", "auth_token", "user_role", "postLoginRedirect"}

\* pages wrapped in <ProtectedRoute>
ProtectedPaths == {"/", "/analytics", "/shopify"}

Paths == ProtectedPaths \cup {"/login", "/cross-platform", "/segmentation"}

\* ---------------------------------------------------------------- state
VARIABLES
  localStorage,   \* window.localStorage: StorageKeys -> value or Null
  route,          \* window.location.pathname
  issued,         \* server: number of access tokens issued so far
  \* LoginPage of app/login/page.tsx (stores 'token')
  lp_tokenWait,   \* submissions awaiting the /token response
  lp_meWait,      \* tokens whose /me response is awaited
  lp_error, lp_token, lp_user,
  \* LoginPage, role-aware version (stores 'auth_token' and 'user_role')
  l2_pc,          \* "idle" | "token" | "me"
  l2_tok,         \* data.access_token held across the /me await
  l2_error, l2_loading,
  \* ProtectedRoute
  pr_ran,         \* its mount effect has run on the page now shown
  \* Navigation
  nav_mounted, nav_isAuthenticated, nav_userRole,
  \* CrossPlatformAnalytics
  cpa_pc,         \* "unmounted" | "fetching" | "done"
  cpa_loading, cpa_error, cpa_authError,
  cpa_loaded,     \* performance, summary and recommendations were set
  cpa_requests,   \* its requests in flight: [ep, auth]
  cpa_timers,     \* targets of its pending setTimeout redirects
  \* AuthProvider
  ap_mounted,     \* its mount effect has run in this document
  ap_user,        \* role of the userData held, or Null
  ap_token,
  ap_tokenWait,   \* login() calls awaiting the /token response
  ap_meWait,      \* fetchUserInfo calls awaiting /me: [tok, login]
  ap_loginResult, \* what the login() promise resolved last resolved to
  ap_lastMe,      \* history: how the /me request answered last ended, "ok" | "failed"
  ap_loggedOut,   \* history: logout() was called and login() has not been called since
  \* useApiCall
  hk_data,        \* payload held: the id of the request that delivered it, 0 for null
  hk_loading, hk_error,
  hk_sent,        \* fetchData calls of this hook instance so far
  hk_inflight,    \* its requests in flight: [id, auth]
  \* NotificationTestingPage
  nt_mounted, nt_health, nt_stats, nt_alertTest, nt_loading, nt_error,
  nt_calls,       \* its async functions awaiting a response: [fn, parent]
  \* CustomersPage
  cu_pc,          \* "unmounted" | "fetching" | "done"
  cu_customers, cu_loading, cu_error,
  \* ShopifyPage
  sh_mounted, sh_connections, sh_loading, sh_error,
  sh_fetching,    \* fetchConnections calls awaiting the response
  sh_setup,       \* setupDemo calls awaiting the response
  \* ReportsPage
  rp_isMounted, rp_healthStatus, rp_error, rp_retryCount,
  rp_isLoading, rp_reportResult,
  rp_initialTimer, \* the 500 ms timer of the mount effect is pending
  rp_retryTimer,  \* the 3 s timer of the auto-retry effect is pending
  rp_started,     \* checkSystemHealth calls so far
  rp_checks,      \* checkSystemHealth calls in progress: [id, cause, phase, status]
  rp_generating   \* a generateReport call awaits its response

browserVars == <<localStorage, route, issued, pr_ran>>
loginVars == <<lp_tokenWait, lp_meWait, lp_error, lp_token, lp_user>>
login2Vars == <<l2_pc, l2_tok, l2_error, l2_loading>>
navVars == <<nav_mounted, nav_isAuthenticated, nav_userRole>>
cpaVars == <<cpa_pc, cpa_loading, cpa_error, cpa_authError, cpa_loaded, cpa_requests, cpa_timers>>
apVars == <<ap_mounted, ap_user, ap_token, ap_tokenWait, ap_meWait, ap_loginResult, ap_lastMe,
           ap_loggedOut>>
\* the state of the pages that are modelled on their own further down
hookVars == <<hk_data, hk_loading, hk_error, hk_sent, hk_inflight>>
notifVars == <<nt_mounted, nt_health, nt_stats, nt_alertTest, nt_loading, nt_error, nt_calls>>
custVars == <<cu_pc, cu_customers, cu_loading, cu_error>>
shopVars == <<sh_mounted, sh_connections, sh_loading, sh_error, sh_fetching, sh_setup>>
repVars == <<rp_isMounted, rp_healthStatus, rp_error, rp_retryCount, rp_isLoading,
             rp_reportResult, rp_initialTimer, rp_retryTimer, rp_started, rp_checks, rp_generating>>
pageVars == <<hookVars, notifVars, custVars, shopVars, repVars>>

\* localStorage.setItem / removeItem
SetItem(ls, k, v) == [ls EXCEPT ![k] = v]
RemoveItem(ls, k) == [ls EXCEPT ![k] = Null]

\* the access token the server issues next to an account of role r
NextToken(r) == TokenTable[r][issued + 1]

\* router.push / router.replace / window.location.replace: the page at p is
\* shown, so the route guard of that page has not run yet
Go(p) == route' = p /\ pr_ran' = FALSE
Stay == UNCHANGED <<route, pr_ran>>

\* ------------------------------------------------ LoginPage (login/page.tsx)
\* handleSubmit up to the first await: clears the form state, sends /token
LoginPage_handleSubmit ==
  /\ route = "/login"
  /\ lp_tokenWait < MaxPending
  /\ lp_error' = Null
  /\ lp_token' = Null
  /\ lp_user' = Null
  /\ lp_tokenWait' = lp_tokenWait + 1
  /\ UNCHANGED <<lp_meWait, localStorage, issued>>
  /\ Stay
  /\ UNCHANGED <<login2Vars, navVars, cpaVars, apVars, pageVars>>

\* continuation after `await fetch(/token)` and `await res.json()`
LoginPage_tokenResponse(o, r) ==
  /\ lp_tokenWait > 0
  /\ lp_tokenWait' = lp_tokenWait - 1
  /\ IF ~Parsed(o)
     THEN \* fetch rejected or res.json() threw: catch
          /\ lp_error' = "Network error"
          /\ UNCHANGED <<lp_token, lp_user, lp_meWait, localStorage, issued>>
          /\ Stay
     ELSE IF IsOk(o.status)
     THEN /\ issued < MaxLogins
          /\ LET tok == NextToken(r)
                 redirectPath == localStorage["postLoginRedirect"]
                 stored == SetItem(localStorage, "token", tok)
             IN /\ lp_token' = tok
                /\ IF redirectPath # Null /\ redirectPath # "/login"
                   THEN /\ localStorage' = RemoveItem(stored, "postLoginRedirect")
                        /\ Go(redirectPath)
                   ELSE /\ localStorage' = stored
                        /\ Go("/")
                /\ lp_meWait' = lp_meWait \cup {tok}
          /\ issued' = issued + 1
          /\ UNCHANGED <<lp_error, lp_user>>
     ELSE /\ lp_error' = "Login failed"
          /\ UNCHANGED <<lp_token, lp_user, lp_meWait, localStorage, issued>>
          /\ Stay
  /\ UNCHANGED <<login2Vars, navVars, cpaVars, apVars, pageVars>>

\* continuation after `await fetch(/me)` and `await meRes.json()`
LoginPage_meResponse(tok, o) ==
  /\ tok \in lp_meWait
  /\ lp_meWait' = lp_meWait \ {tok}
  /\ IF Parsed(o)
     THEN /\ lp_user' = IF IsOk(o.status) THEN RoleOf(tok) ELSE "detail"
          /\ UNCHANGED lp_error
     ELSE /\ lp_error' = "Network error"
          /\ UNCHANGED lp_user
  /\ UNCHANGED <<lp_tokenWait, lp_token, localStorage, issued>>
  /\ Stay
  /\ UNCHANGED <<login2Vars, navVars, cpaVars, apVars, pageVars>>

\* --------------------------------------------- LoginPage (role-aware version)
\* handleSubmit up to the first await; the submit button is disabled while
\* loading, so one submission runs at a time
LoginPage2_handleSubmit ==
  /\ route = "/login"
  /\ ~l2_loading
  /\ l2_pc = "idle"
  /\ l2_error' = Null
  /\ l2_loading' = TRUE
  /\ l2_pc' = "token"
  /\ UNCHANGED <<l2_tok, localStorage, issued>>
  /\ Stay
  /\ UNCHANGED <<loginVars, navVars, cpaVars, apVars, pageVars>>

\* variant: the token is stored without looking at res.ok
LoginPage2_tokenResponse_noOkCheck(o, r) ==
  /\ l2_pc = "token"
  /\ IF ~Parsed(o)
     THEN /\ l2_error' = "Network error - make sure backend is running on port 8001"
          /\ l2_loading' = FALSE
          /\ l2_pc' = "idle"
          /\ UNCHANGED <<l2_tok, localStorage, issued>>
     ELSE /\ issued < MaxLogins
          /\ localStorage' = SetItem(localStorage, "auth_token", NextToken(r))
          /\ l2_tok' = NextToken(r)
          /\ issued' = issued + 1
          /\ l2_pc' = "me"
          /\ UNCHANGED <<l2_error, l2_loading>>
  /\ Stay
  /\ UNCHANGED <<loginVars, navVars, cpaVars, apVars, pageVars>>

\* continuation after `await fetch(/token)` and `await res.json()`
LoginPage2_tokenResponse(o, r) ==
  /\ l2_pc = "token"
  /\ IF ~Parsed(o)
     THEN /\ l2_error' = "Network error - make sure backend is running on port 8001"
          /\ l2_loading' = FALSE
          /\ l2_pc' = "idle"
          /\ UNCHANGED <<l2_tok, localStorage, issued>>
     ELSE IF IsOk(o.status)
     THEN /\ issued < MaxLogins
          /\ localStorage' = SetItem(localStorage, "auth_token", NextToken(r))
          /\ l2_tok' = NextToken(r)
          /\ issued' = issued + 1
          /\ l2_pc' = "me"
          /\ UNCHANGED <<l2_error, l2_loading>>
     ELSE /\ l2_error' = "Login failed"
          /\ l2_loading' = FALSE
          /\ l2_pc' = "idle"
          /\ UNCHANGED <<l2_tok, localStorage, issued>>
  /\ Stay
  /\ UNCHANGED <<loginVars, navVars, cpaVars, apVars, pageVars>>

\* continuation after `await fetch(/me)` and `await meRes.json()`
LoginPage2_meResponse(o) ==
  /\ l2_pc = "me"
  /\ l2_pc' = "idle"
  /\ l2_loading' = FALSE
  /\ l2_tok' = Null
  /\ IF ~Parsed(o)
     THEN /\ l2_error' = "Network error - make sure backend is running on port 8001"
          /\ UNCHANGED localStorage
          /\ Stay
     ELSE IF IsOk(o.status)
     THEN /\ localStorage' = SetItem(localStorage, "user_role", RoleOf(l2_tok))
          /\ Go(IF RoleOf(l2_tok) = "admin" THEN "/cross-platform" ELSE "/analytics")
          /\ UNCHANGED l2_error
     ELSE /\ l2_error' = "Failed to get user information"
          /\ UNCHANGED localStorage
          /\ Stay
  /\ UNCHANGED issued
  /\ UNCHANGED <<loginVars, navVars, cpaVars, apVars, pageVars>>

\* ---------------------------------------------------------- ProtectedRoute
\* variant: the guard reads the key 'auth_token'
ProtectedRoute_mount_authTokenKey ==
  /\ route \in ProtectedPaths
  /\ ~pr_ran
  /\ pr_ran' = TRUE
  /\ IF localStorage["auth_token"] = Null
     THEN /\ localStorage' = SetItem(localStorage, "postLoginRedirect", route)
          /\ route' = "/login"
     ELSE UNCHANGED <<localStorage, route>>
  /\ UNCHANGED issued
  /\ UNCHANGED <<loginVars, login2Vars, navVars, cpaVars, apVars, pageVars>>

\* the mount effect of ProtectedRoute on the page now shown
ProtectedRoute_mount ==
  /\ route \in ProtectedPaths
  /\ ~pr_ran
  /\ pr_ran' = TRUE
  /\ IF localStorage["token"] = Null
     THEN /\ localStorage' = SetItem(localStorage, "postLoginRedirect", route)
          /\ route' = "/login"
     ELSE UNCHANGED <<localStorage, route>>
  /\ UNCHANGED issued
  /\ UNCHANGED <<loginVars, login2Vars, navVars, cpaVars, apVars, pageVars>>

\* ---------------------------------------------------------------- HomePage
\* the mount effect of HomePage
HomePage_mount ==
  /\ route = "/"
  /\ IF localStorage["auth_token"] # Null /\ localStorage["user_role"] # Null
     THEN Go(IF localStorage["user_role"] = "admin" THEN "/cross-platform" ELSE "/analytics")
     ELSE Stay
  /\ UNCHANGED <<localStorage, issued>>
  /\ UNCHANGED <<loginVars, login2Vars, navVars, cpaVars, apVars, pageVars>>

\* -------------------------------------------------------------- Navigation
\* the mount effect of Navigation
Navigation_mount ==
  /\ ~nav_mounted
  /\ nav_mounted' = TRUE
  /\ nav_isAuthenticated' = (localStorage["auth_token"] # Null)
  /\ nav_userRole' = localStorage["user_role"]
  /\ UNCHANGED <<localStorage, issued>>
  /\ Stay
  /\ UNCHANGED <<loginVars, login2Vars, cpaVars, apVars, pageVars>>

\* the Logout button, rendered only when isAuthenticated
Navigation_handleLogout ==
  /\ nav_mounted
  /\ nav_isAuthenticated
  /\ localStorage' = RemoveItem(RemoveItem(localStorage, "auth_token"), "user_role")
  /\ nav_isAuthenticated' = FALSE
  /\ nav_userRole' = Null
  /\ Go("/login")
  /\ UNCHANGED <<nav_mounted, issued>>
  /\ UNCHANGED <<loginVars, login2Vars, cpaVars, apVars, pageVars>>

\* ---------------------------------------------------- CrossPlatformAnalytics
CpaEndpoints == {"performance", "kpis", "recommendations"}

\* what one of its fetches can do; the body of a non-OK response is never read
CpaOutcomes ==
  {o \in Outcomes : o.kind = "response" /\ ~IsOk(o.status) => o.json}

\* variant: the role is not checked before the requests are sent
CrossPlatformAnalytics_fetchData_noRoleCheck ==
  /\ route = "/cross-platform"
  /\ cpa_pc = "unmounted"
  /\ LET token == localStorage["auth_token"]
     IN IF token = Null
        THEN /\ cpa_authError' = "Please log in to access this page"
             /\ Go("/login")
             /\ cpa_loading' = FALSE
             /\ cpa_pc' = "done"
             /\ UNCHANGED <<cpa_requests, cpa_timers>>
        ELSE /\ cpa_requests' = {[ep |-> e, auth |-> token] : e \in CpaEndpoints}
             /\ cpa_loading' = TRUE
             /\ cpa_pc' = "fetching"
             /\ Stay
             /\ UNCHANGED <<cpa_authError, cpa_timers>>
  /\ UNCHANGED <<cpa_error, cpa_loaded, localStorage, issued>>
  /\ UNCHANGED <<loginVars, login2Vars, navVars, apVars, pageVars>>

\* fetchData, run by the mount effect, up to `await Promise.all([...])` or to
\* the early return after a failed access check (finally: setLoading(false))
CrossPlatformAnalytics_fetchData ==
  /\ route = "/cross-platform"
  /\ cpa_pc = "unmounted"
  /\ LET token == localStorage["auth_token"]
         userRole == localStorage["user_role"]
     IN IF token = Null
        THEN /\ cpa_authError' = "Please log in to access this page"
             /\ Go("/login")
             /\ cpa_loading' = FALSE
             /\ cpa_pc' = "done"
             /\ UNCHANGED <<cpa_requests, cpa_timers>>
        ELSE IF userRole # "admin"
        THEN /\ cpa_authError' = "Admin access required for cross-platform analytics"
             /\ cpa_timers' = cpa_timers \cup {"/segmentation"}
             /\ cpa_loading' = FALSE
             /\ cpa_pc' = "done"
             /\ Stay
             /\ UNCHANGED cpa_requests
        ELSE /\ cpa_requests' = {[ep |-> e, auth |-> token] : e \in CpaEndpoints}
             /\ cpa_loading' = TRUE
             /\ cpa_pc' = "fetching"
             /\ Stay
             /\ UNCHANGED <<cpa_authError, cpa_timers>>
  /\ UNCHANGED <<cpa_error, cpa_loaded, localStorage, issued>>
  /\ UNCHANGED <<loginVars, login2Vars, navVars, apVars, pageVars>>

\* continuation after the two Promise.all awaits; os[e] is what the fetch of
\* endpoint e did
CrossPlatformAnalytics_responses(os) ==
  /\ cpa_pc = "fetching"
  /\ cpa_pc' = "done"
  /\ cpa_requests' = {}
  /\ cpa_loading' = FALSE
  /\ IF \E e \in CpaEndpoints : os[e].kind = "reject"
     THEN /\ cpa_error' = "Failed to fetch"
          /\ UNCHANGED <<cpa_authError, cpa_timers, cpa_loaded>>
     ELSE IF \E e \in CpaEndpoints : os[e].status = 403
     THEN /\ cpa_authError' = "Admin access required for cross-platform analytics"
          /\ cpa_timers' = cpa_timers \cup {"/login"}
          /\ UNCHANGED <<cpa_error, cpa_loaded>>
     ELSE IF \E e \in CpaEndpoints : ~IsOk(os[e].status)
     THEN /\ cpa_error' = "Failed to fetch cross-platform analytics data"
          /\ UNCHANGED <<cpa_authError, cpa_timers, cpa_loaded>>
     ELSE IF \E e \in CpaEndpoints : ~os[e].json
     THEN /\ cpa_error' = "Unexpected token"
          /\ UNCHANGED <<cpa_authError, cpa_timers, cpa_loaded>>
     ELSE /\ cpa_loaded' = TRUE
          /\ cpa_error' = Null
          /\ UNCHANGED <<cpa_authError, cpa_timers>>
  /\ UNCHANGED <<localStorage, issued>>
  /\ Stay
  /\ UNCHANGED <<loginVars, login2Vars, navVars, apVars, pageVars>>

\* a setTimeout(() => router.push(p), 2000) of the component fires
CrossPlatformAnalytics_timer(p) ==
  /\ p \in cpa_timers
  /\ cpa_timers' = cpa_timers \ {p}
  /\ Go(p)
  /\ UNCHANGED <<cpa_pc, cpa_loading, cpa_error, cpa_authError, cpa_loaded, cpa_requests>>
  /\ UNCHANGED <<localStorage, issued>>
  /\ UNCHANGED <<loginVars, login2Vars, navVars, apVars, pageVars>>

\* ------------------------------------------------------------ AuthProvider
\* variant: the state is reset but the stored token is kept
AuthProvider_clear_keepStorage ==
  /\ UNCHANGED localStorage
  /\ ap_token' = Null
  /\ ap_user' = Null

\* fetchUserInfo's else branch and catch block: the token is dropped
AuthProvider_clear ==
  /\ localStorage' = RemoveItem(localStorage, "auth_token")
  /\ ap_token' = Null
  /\ ap_user' = Null

\* the mount effect: a stored token is taken over and checked with /me
AuthProvider_mount ==
  /\ ~ap_mounted
  /\ ap_mounted' = TRUE
  /\ LET storedToken == localStorage["auth_token"]
     IN IF storedToken # Null
        THEN /\ ap_token' = storedToken
             /\ ap_meWait' = ap_meWait \cup {[tok |-> storedToken, login |-> FALSE]}
        ELSE UNCHANGED <<ap_token, ap_meWait>>
  /\ UNCHANGED <<ap_user, ap_tokenWait, ap_loginResult, ap_lastMe, ap_loggedOut>>
  /\ UNCHANGED <<localStorage, issued>>
  /\ Stay
  /\ UNCHANGED <<loginVars, login2Vars, navVars, cpaVars, pageVars>>

\* login() up to `await fetch(/token)`
AuthProvider_login ==
  /\ ap_mounted
  /\ ap_tokenWait < MaxPending
  /\ ap_tokenWait' = ap_tokenWait + 1
  /\ ap_loggedOut' = FALSE
  /\ UNCHANGED <<ap_mounted, ap_user, ap_token, ap_meWait, ap_loginResult, ap_lastMe>>
  /\ UNCHANGED <<localStorage, issued>>
  /\ Stay
  /\ UNCHANGED <<loginVars, login2Vars, navVars, cpaVars, pageVars>>

\* login() after `await fetch(/token)`, up to `await fetchUserInfo(authToken)`
\* on an OK response, to `return false` otherwise
AuthProvider_tokenResponse(o, r) ==
  /\ ap_tokenWait > 0
  /\ ap_tokenWait' = ap_tokenWait - 1
  /\ IF o.kind = "response" /\ IsOk(o.status) /\ o.json
     THEN /\ issued < MaxLogins
          /\ ap_token' = NextToken(r)
          /\ localStorage' = SetItem(localStorage, "auth_token", NextToken(r))
          /\ ap_meWait' = ap_meWait \cup {[tok |-> NextToken(r), login |-> TRUE]}
          /\ issued' = issued + 1
          /\ UNCHANGED ap_loginResult
     ELSE /\ ap_loginResult' = "false"
          /\ UNCHANGED <<ap_token, ap_meWait, localStorage, issued>>
  /\ UNCHANGED <<ap_mounted, ap_user, ap_lastMe, ap_loggedOut>>
  /\ Stay
  /\ UNCHANGED <<loginVars, login2Vars, navVars, cpaVars, pageVars>>

\* fetchUserInfo after `await fetch(/me)`; when login() awaits this call,
\* login() then returns true
AuthProvider_fetchUserInfo(m, o) ==
  /\ m \in ap_meWait
  /\ ap_meWait' = ap_meWait \ {m}
  /\ IF o.kind = "response" /\ IsOk(o.status) /\ o.json
     THEN /\ ap_user' = RoleOf(m.tok)
          /\ ap_lastMe' = "ok"
          /\ UNCHANGED <<ap_token, localStorage>>
     ELSE /\ AuthProvider_clear
          /\ ap_lastMe' = "failed"
  /\ ap_loginResult' = IF m.login THEN "true" ELSE ap_loginResult
  /\ UNCHANGED <<ap_mounted, ap_tokenWait, ap_loggedOut, issued>>
  /\ Stay
  /\ UNCHANGED <<loginVars, login2Vars, navVars, cpaVars, pageVars>>

AuthProvider_logout ==
  /\ ap_mounted
  /\ ap_user' = Null
  /\ ap_token' = Null
  /\ localStorage' = RemoveItem(localStorage, "auth_token")
  /\ ap_loggedOut' = TRUE
  /\ UNCHANGED <<ap_mounted, ap_tokenWait, ap_meWait, ap_loginResult, ap_lastMe, issued>>
  /\ Stay
  /\ UNCHANGED <<loginVars, login2Vars, navVars, cpaVars, pageVars>>

isAdmin == ap_user = "admin"

isAuthenticated == ap_user # Null /\ ap_token # Null

\* -------------------------------------------------------------- useApiCall
\* the headers option of the hook's fetch: the Authorization header it sends
useApiCall_headers == IF localStorage["token"] # Null THEN localStorage["token"] ELSE Null

\* fetchData up to `await fetch(...)`; run by the mount effect, by the effect
\* again when a dependency changes, and by refetch
useApiCall_fetchData ==
  /\ route = "/analytics"
  /\ hk_sent < MaxRequests
  /\ hk_loading' = TRUE
  /\ hk_error' = Null
  /\ hk_sent' = hk_sent + 1
  /\ hk_inflight' = hk_inflight \cup {[id |-> hk_sent + 1, auth |-> useApiCall_headers]}
  /\ UNCHANGED hk_data
  /\ UNCHANGED <<browserVars, loginVars, login2Vars, navVars, cpaVars, apVars>>
  /\ UNCHANGED <<notifVars, custVars, shopVars, repVars>>

\* err.message of what fetchData catches
useApiCall_message(o) ==
  IF o.kind = "reject" THEN "Failed to fetch"
  ELSE IF ~IsOk(o.status) THEN "HTTP error! status: " \o ToString(o.status)
  ELSE "Unexpected token"

\* variant: the catch block also drops the data held
useApiCall_settle_dropsData(q, o) ==
  /\ q \in hk_inflight
  /\ hk_inflight' = hk_inflight \ {q}
  /\ IF Parsed(o) /\ IsOk(o.status)
     THEN /\ hk_data' = q.id
          /\ UNCHANGED hk_error
     ELSE /\ hk_error' = useApiCall_message(o)
          /\ hk_data' = 0
  /\ hk_loading' = FALSE
  /\ UNCHANGED hk_sent
  /\ UNCHANGED <<browserVars, loginVars, login2Vars, navVars, cpaVars, apVars>>
  /\ UNCHANGED <<notifVars, custVars, shopVars, repVars>>

\* fetchData after `await fetch(...)` and `await response.json()`, with its
\* catch and finally blocks
useApiCall_settle(q, o) ==
  /\ q \in hk_inflight
  /\ hk_inflight' = hk_inflight \ {q}
  /\ IF Parsed(o) /\ IsOk(o.status)
     THEN /\ hk_data' = q.id
          /\ UNCHANGED hk_error
     ELSE /\ hk_error' = useApiCall_message(o)
          /\ UNCHANGED hk_data
  /\ hk_loading' = FALSE
  /\ UNCHANGED hk_sent
  /\ UNCHANGED <<browserVars, loginVars, login2Vars, navVars, cpaVars, apVars>>
  /\ UNCHANGED <<notifVars, custVars, shopVars, repVars>>

HookFresh(data, loading, error, sent, inflight) ==
  /\ data = 0 /\ loading = TRUE /\ error = Null
  /\ sent = 0 /\ inflight = {}

\* ------------------------------------------------- NotificationTestingPage
\* what `await response.json()` yields: the payload of an OK response, the
\* error document of any other
Body(o) == IF IsOk(o.status) THEN "data" ELSE "error body"

NotifOthers == <<browserVars, loginVars, login2Vars, navVars, cpaVars, apVars, hookVars, custVars, shopVars, repVars>>

\* the mount effect: fetchHealth() and fetchStats(), each up to its await
NotificationTestingPage_mount ==
  /\ ~nt_mounted
  /\ nt_mounted' = TRUE
  /\ nt_calls' = nt_calls \cup {[fn |-> "fetchHealth", parent |-> Null],
                                [fn |-> "fetchStats", parent |-> Null]}
  /\ UNCHANGED <<nt_health, nt_stats, nt_alertTest, nt_loading, nt_error>>
  /\ UNCHANGED NotifOthers

\* fetchHealth after its awaits
fetchHealth(o) ==
  /\ [fn |-> "fetchHealth", parent |-> Null] \in nt_calls
  /\ nt_calls' = nt_calls \ {[fn |-> "fetchHealth", parent |-> Null]}
  /\ IF Parsed(o)
     THEN /\ nt_health' = Body(o)
          /\ UNCHANGED nt_error
     ELSE /\ nt_error' = "Failed to fetch notification health"
          /\ UNCHANGED nt_health
  /\ UNCHANGED <<nt_mounted, nt_stats, nt_alertTest, nt_loading>>
  /\ UNCHANGED NotifOthers

\* fetchStats after its awaits; when a test function awaits this call
\* (c.parent), that function's finally block runs next: setLoading(false)
fetchStats(c, o) ==
  /\ c \in nt_calls
  /\ c.fn = "fetchStats"
  /\ nt_calls' = nt_calls \ {c}
  /\ IF Parsed(o)
     THEN /\ nt_stats' = Body(o)
          /\ UNCHANGED nt_error
     ELSE /\ nt_error' = "Failed to fetch notification stats"
          /\ UNCHANGED nt_stats
  /\ nt_loading' = IF c.parent # Null THEN FALSE ELSE nt_loading
  /\ UNCHANGED <<nt_mounted, nt_health, nt_alertTest>>
  /\ UNCHANGED NotifOthers

\* a test button (disabled while loading) starts fn, up to its await
NotificationTest_start(fn) ==
  /\ nt_mounted
  /\ ~nt_loading
  /\ nt_loading' = TRUE
  /\ nt_calls' = nt_calls \cup {[fn |-> fn, parent |-> Null]}
  /\ UNCHANGED <<nt_mounted, nt_health, nt_stats, nt_alertTest, nt_error>>
  /\ UNCHANGED NotifOthers

\* fn after `await fetch` and `await response.json()`: up to
\* `await fetchStats()`, or through catch and finally
NotificationTest_response(fn, message, o) ==
  /\ [fn |-> fn, parent |-> Null] \in nt_calls
  /\ IF Parsed(o)
     THEN /\ nt_alertTest' = Body(o)
          /\ nt_calls' = (nt_calls \ {[fn |-> fn, parent |-> Null]})
                           \cup {[fn |-> "fetchStats", parent |-> fn]}
          /\ UNCHANGED <<nt_error, nt_loading>>
     ELSE /\ nt_error' = message
          /\ nt_loading' = FALSE
          /\ nt_calls' = nt_calls \ {[fn |-> fn, parent |-> Null]}
          /\ UNCHANGED nt_alertTest
  /\ UNCHANGED <<nt_mounted, nt_health, nt_stats>>
  /\ UNCHANGED NotifOthers

testNotifications == NotificationTest_start("testNotifications")

testNotifications_response(o) ==
  NotificationTest_response("testNotifications", "Failed to send test notifications", o)

testAlertIntegration == NotificationTest_start("testAlertIntegration")

testAlertIntegration_response(o) ==
  NotificationTest_response("testAlertIntegration", "Failed to test alert integration", o)

NotifFresh(mounted, health, stats, alertTest, loading, error, calls) ==
  /\ mounted = FALSE /\ health = Null /\ stats = Null /\ alertTest = Null
  /\ loading = FALSE /\ error = Null /\ calls = {}

\* ------------------------------------------------------------ CustomersPage
CustOthers == <<browserVars, loginVars, login2Vars, navVars, cpaVars, apVars, hookVars, notifVars, shopVars, repVars>>

\* the mount effect: fetch('/customers') is sent
CustomersPage_mount ==
  /\ cu_pc = "unmounted"
  /\ cu_pc' = "fetching"
  /\ UNCHANGED <<cu_customers, cu_loading, cu_error>>
  /\ UNCHANGED CustOthers

\* the .then(res => res.json()).then(data => ...) chain, or its .catch
CustomersPage_response(o) ==
  /\ cu_pc = "fetching"
  /\ cu_pc' = "done"
  /\ IF Parsed(o)
     THEN \* data.customers: the list of an OK answer, undefined otherwise
          /\ cu_customers' = IF IsOk(o.status) THEN "customers" ELSE "undefined"
          /\ UNCHANGED cu_error
     ELSE /\ cu_error' = "Failed to fetch customers"
          /\ UNCHANGED cu_customers
  /\ cu_loading' = FALSE
  /\ UNCHANGED CustOthers

CustFresh(pc, customers, loading, error) ==
  /\ pc = "unmounted" /\ customers = "[]" /\ loading = TRUE /\ error = Null

\* -------------------------------------------------------------- ShopifyPage
ShopOthers == <<browserVars, loginVars, login2Vars, navVars, cpaVars, apVars, hookVars, notifVars, custVars, repVars>>

\* the demo connection the page falls back to, by its status
DemoStore(status) == [shop_domain |-> "nexus-analytics-demo.myshopify.com", status |-> status]

TestStore == [shop_domain |-> "test-store-demo.myshopify.com", status |-> "connected"]

\* data.data?.active_shops || [] of an OK connection-status answer
ActiveShops == {<<>>, <<[shop_domain |-> "acme.myshopify.com", status |-> "active"]>>}

\* fetchConnections up to `await fetch(...)`, or, without a token, through
\* its catch and finally blocks
fetchConnections_start ==
  IF localStorage["auth_token"] = Null
  THEN /\ sh_connections' = <<DemoStore("demo")>>
       /\ sh_error' = "Demo mode: Connect with real credentials to access live Shopify data"
       /\ sh_loading' = FALSE
       /\ UNCHANGED sh_fetching
  ELSE /\ sh_fetching < MaxFetches
       /\ sh_fetching' = sh_fetching + 1
       /\ UNCHANGED <<sh_connections, sh_error, sh_loading>>

\* the mount effect
ShopifyPage_mount ==
  /\ route = "/shopify"
  /\ ~sh_mounted
  /\ sh_mounted' = TRUE
  /\ fetchConnections_start
  /\ UNCHANGED sh_setup
  /\ UNCHANGED ShopOthers

\* the Refresh button, disabled while loading
ShopifyPage_refresh ==
  /\ sh_mounted
  /\ ~sh_loading
  /\ fetchConnections_start
  /\ UNCHANGED <<sh_mounted, sh_setup>>
  /\ UNCHANGED ShopOthers

\* fetchConnections after `await fetch(...)` and, for an OK response,
\* `await response.json()`; shops is the list the server answered
fetchConnections(o, shops) ==
  /\ sh_fetching > 0
  /\ sh_fetching' = sh_fetching - 1
  /\ IF o.kind = "response" /\ ~IsOk(o.status)
     THEN /\ sh_connections' = <<DemoStore("demo")>>
          /\ sh_error' = "Demo mode: Shopify integration is working but using simulated data"
     ELSE IF Parsed(o)
     THEN /\ sh_connections' = shops
          /\ UNCHANGED sh_error
     ELSE /\ sh_connections' = <<DemoStore("demo")>>
          /\ sh_error' = "Demo mode: Connect with real credentials to access live Shopify data"
  /\ sh_loading' = FALSE
  /\ UNCHANGED <<sh_mounted, sh_setup>>
  /\ UNCHANGED ShopOthers

\* setupDemo up to `await fetch(...)`, or to its return without a token
setupDemo ==
  /\ sh_mounted
  /\ sh_setup < MaxPending
  /\ IF localStorage["auth_token"] = Null
     THEN /\ sh_connections' = <<DemoStore("connected"), TestStore>>
          /\ UNCHANGED sh_setup
     ELSE /\ sh_setup' = sh_setup + 1
          /\ UNCHANGED sh_connections
  /\ UNCHANGED <<sh_mounted, sh_loading, sh_error, sh_fetching>>
  /\ UNCHANGED ShopOthers

\* setupDemo after its awaits: on success it calls fetchConnections()
setupDemo_response(o) ==
  /\ sh_setup > 0
  /\ sh_setup' = sh_setup - 1
  /\ IF o.kind = "response" /\ ~IsOk(o.status)
     THEN /\ sh_connections' = <<DemoStore("connected")>>
          /\ UNCHANGED <<sh_error, sh_loading, sh_fetching>>
     ELSE IF Parsed(o)
     THEN fetchConnections_start
     ELSE /\ sh_connections' = <<DemoStore("demo")>>
          /\ UNCHANGED <<sh_error, sh_loading, sh_fetching>>
  /\ UNCHANGED sh_mounted
  /\ UNCHANGED ShopOthers

\* the Connected Stores panel lists exactly shops: no spinner, no error text
ConnectedStores(shops) == ~sh_loading /\ sh_error = Null /\ sh_connections = shops

ShopFresh(mounted, connections, loading, error, fetching, setup) ==
  /\ mounted = FALSE /\ connections = <<>> /\ loading = TRUE /\ error = Null
  /\ fetching = 0 /\ setup = 0

\* -------------------------------------------------------------- ReportsPage
RepOthers == <<browserVars, loginVars, login2Vars, navVars, cpaVars, apVars, hookVars, notifVars, custVars, shopVars>>

\* statuses the health endpoint answers with
HealthStatuses == {200, 500}

\* the auto-retry limit: `retryCount < 2`
RetryLimit == 2

\* variant: the effect does not ask for an error
AutoRetry_condition_noError(isMounted, healthStatus, error, retryCount) ==
  isMounted /\ healthStatus = Null /\ retryCount < RetryLimit

\* the condition of the auto-retry effect, on the values of one render
AutoRetry_condition(isMounted, healthStatus, error, retryCount) ==
  isMounted /\ healthStatus = Null /\ error # Null /\ retryCount < RetryLimit

\* the auto-retry effect, deps [error, healthStatus, retryCount], after the
\* render that follows a step: when a dependency changed, its cleanup clears
\* the pending timer and the effect arms a new one if its condition holds;
\* pending is the timer left by the step itself
AutoRetry_effect(pending) ==
  rp_retryTimer' =
    IF <<rp_error', rp_healthStatus', rp_retryCount'>> = <<rp_error, rp_healthStatus, rp_retryCount>>
    THEN pending
    ELSE AutoRetry_condition(rp_isMounted', rp_healthStatus', rp_error', rp_retryCount')

\* the two mount effects: setIsMounted(true), then the 500 ms timer is armed
ReportsPage_mount ==
  /\ ~rp_isMounted
  /\ rp_isMounted' = TRUE
  /\ rp_initialTimer' = TRUE
  /\ UNCHANGED <<rp_healthStatus, rp_error, rp_retryCount, rp_isLoading, rp_reportResult,
                 rp_retryTimer, rp_started, rp_checks, rp_generating>>
  /\ UNCHANGED RepOthers

\* checkSystemHealth up to `await fetch(...)`: the error is cleared, the 8 s
\* abort timer is armed and the request is sent
checkSystemHealth(cause) ==
  /\ rp_started < MaxChecks
  /\ Cardinality(rp_checks) < MaxFetches
  /\ rp_started' = rp_started + 1
  /\ rp_error' = Null
  /\ rp_checks' = rp_checks \cup
       {[id |-> rp_started + 1, cause |-> cause, phase |-> "fetch", status |-> 0]}

\* the 500 ms timer fires
ReportsPage_initialTimer ==
  /\ rp_initialTimer
  /\ rp_initialTimer' = FALSE
  /\ checkSystemHealth("mount")
  /\ UNCHANGED <<rp_isMounted, rp_healthStatus, rp_retryCount, rp_isLoading, rp_reportResult, rp_generating>>
  /\ AutoRetry_effect(rp_retryTimer)
  /\ UNCHANGED RepOthers

\* variant: the timer callback does not count the retry
ReportsPage_retryTimer_notCounted ==
  /\ rp_retryTimer
  /\ UNCHANGED rp_retryCount
  /\ checkSystemHealth("retry")
  /\ UNCHANGED <<rp_isMounted, rp_healthStatus, rp_isLoading, rp_reportResult,
                 rp_initialTimer, rp_generating>>
  /\ AutoRetry_effect(FALSE)
  /\ UNCHANGED RepOthers

\* the 3 s timer of the auto-retry effect fires
ReportsPage_retryTimer ==
  /\ rp_retryTimer
  /\ rp_retryCount' = rp_retryCount + 1
  /\ checkSystemHealth("retry")
  /\ UNCHANGED <<rp_isMounted, rp_healthStatus, rp_isLoading, rp_reportResult,
                 rp_initialTimer, rp_generating>>
  /\ AutoRetry_effect(FALSE)
  /\ UNCHANGED RepOthers

\* the Refresh Status and Retry Connection buttons
ReportsPage_refresh ==
  /\ rp_isMounted
  /\ rp_retryCount' = 0
  /\ checkSystemHealth("user")
  /\ UNCHANGED <<rp_isMounted, rp_healthStatus, rp_isLoading, rp_reportResult,
                 rp_initialTimer, rp_generating>>
  /\ AutoRetry_effect(rp_retryTimer)
  /\ UNCHANGED RepOthers

\* checkSystemHealth after `await fetch(...)` resolved: clearTimeout(timeoutId),
\* up to `await response.json()` or `await response.text()`
checkSystemHealth_response(c, status) ==
  /\ c \in rp_checks
  /\ c.phase = "fetch"
  /\ rp_checks' = (rp_checks \ {c}) \cup {[c EXCEPT !.phase = "body", !.status = status]}
  /\ UNCHANGED <<rp_isMounted, rp_healthStatus, rp_error, rp_retryCount, rp_isLoading,
                 rp_reportResult, rp_initialTimer, rp_retryTimer, rp_started,
                 rp_generating>>
  /\ UNCHANGED RepOthers

\* checkSystemHealth after the body was read (read = TRUE) or reading it threw
checkSystemHealth_body(c, read) ==
  /\ c \in rp_checks
  /\ c.phase = "body"
  /\ rp_checks' = rp_checks \ {c}
  /\ IF ~read
     THEN /\ rp_error' = "Failed to connect to report system: Unexpected token"
          /\ UNCHANGED rp_healthStatus
     ELSE IF IsOk(c.status)
     THEN /\ rp_healthStatus' = "health"
          /\ rp_error' = Null
     ELSE /\ rp_error' = "Report system health check failed (" \o ToString(c.status) \o "): error text"
          /\ UNCHANGED rp_healthStatus
  /\ UNCHANGED <<rp_isMounted, rp_retryCount, rp_isLoading, rp_reportResult,
                 rp_initialTimer, rp_started, rp_generating>>
  /\ AutoRetry_effect(rp_retryTimer)
  /\ UNCHANGED RepOthers

\* `await fetch(...)` rejected with a network error: the catch block
checkSystemHealth_reject(c) ==
  /\ c \in rp_checks
  /\ c.phase = "fetch"
  /\ rp_checks' = rp_checks \ {c}
  /\ rp_error' = "Failed to connect to report system: Failed to fetch"
  /\ UNCHANGED <<rp_isMounted, rp_healthStatus, rp_retryCount, rp_isLoading, rp_reportResult,
                 rp_initialTimer, rp_started, rp_generating>>
  /\ AutoRetry_effect(rp_retryTimer)
  /\ UNCHANGED RepOthers

TimedOutMessage == "Health check timed out - please try the refresh button"

\* variant: the 8 s timer is not cleared when the response arrives
checkSystemHealth_timeout_notCleared(c) ==
  /\ c \in rp_checks
  /\ rp_checks' = rp_checks \ {c}
  /\ rp_error' = TimedOutMessage
  /\ UNCHANGED <<rp_isMounted, rp_healthStatus, rp_retryCount, rp_isLoading, rp_reportResult,
                 rp_initialTimer, rp_started, rp_generating>>
  /\ AutoRetry_effect(rp_retryTimer)
  /\ UNCHANGED RepOthers

\* the 8 s timer fires before clearTimeout: controller.abort() cancels the
\* request, fetch rejects with an AbortError, the catch block runs
checkSystemHealth_timeout(c) ==
  /\ c \in rp_checks
  /\ c.phase = "fetch"
  /\ rp_checks' = rp_checks \ {c}
  /\ rp_error' = TimedOutMessage
  /\ UNCHANGED <<rp_isMounted, rp_healthStatus, rp_retryCount, rp_isLoading, rp_reportResult,
                 rp_initialTimer, rp_started, rp_generating>>
  /\ AutoRetry_effect(rp_retryTimer)
  /\ UNCHANGED RepOthers

\* generateReport / generateDetailedReport (buttons disabled while isLoading)
\* up to `await fetch(...)`
generateReport ==
  /\ rp_isMounted
  /\ ~rp_isLoading
  /\ rp_isLoading' = TRUE
  /\ rp_error' = Null
  /\ rp_reportResult' = Null
  /\ rp_generating' = TRUE
  /\ UNCHANGED <<rp_isMounted, rp_healthStatus, rp_retryCount, rp_initialTimer,
                 rp_started, rp_checks>>
  /\ AutoRetry_effect(rp_retryTimer)
  /\ UNCHANGED RepOthers

\* generateReport after its awaits, with its catch and finally blocks
generateReport_response(o) ==
  /\ rp_generating
  /\ rp_generating' = FALSE
  /\ rp_isLoading' = FALSE
  /\ IF ~Parsed(o)
     THEN /\ rp_error' = "Failed to generate report"
          /\ UNCHANGED rp_reportResult
     ELSE IF IsOk(o.status)
     THEN /\ rp_reportResult' = "report"
          /\ UNCHANGED rp_error
     ELSE /\ rp_error' = "Report generation failed"
          /\ UNCHANGED rp_reportResult
  /\ UNCHANGED <<rp_isMounted, rp_healthStatus, rp_retryCount, rp_initialTimer,
                 rp_started, rp_checks>>
  /\ AutoRetry_effect(rp_retryTimer)
  /\ UNCHANGED RepOthers

RepFresh(isMounted, healthStatus, error, retryCount, isLoading, reportResult, initialTimer, retryTimer, started, checks, generating) ==
  /\ isMounted = FALSE /\ healthStatus = Null /\ error = Null /\ retryCount = 0
  /\ isLoading = FALSE /\ reportResult = Null /\ initialTimer = FALSE
  /\ retryTimer = FALSE /\ started = 0 /\ checks = {}
  /\ generating = FALSE

\* ------------------------------------------------------------- the browser
\* useState initial values of the components
LoginFresh(tokenWait, meWait, error, token, user) ==
  /\ tokenWait = 0 /\ meWait = {}
  /\ error = Null /\ token = Null /\ user = Null

Login2Fresh(pc, tok, error, loading) ==
  /\ pc = "idle" /\ tok = Null /\ error = Null /\ loading = FALSE

NavFresh(mounted, auth, userRole) ==
  /\ mounted = FALSE /\ auth = FALSE /\ userRole = Null

CpaFresh(pc, loading, error, authError, loaded, requests) ==
  /\ pc = "unmounted" /\ loading = TRUE /\ error = Null
  /\ authError = Null /\ loaded = FALSE /\ requests = {}

\* the page components are replaced by new instances
PagesReset ==
  /\ LoginFresh(lp_tokenWait', lp_meWait', lp_error', lp_token', lp_user')
  /\ Login2Fresh(l2_pc', l2_tok', l2_error', l2_loading')
  /\ CpaFresh(cpa_pc', cpa_loading', cpa_error', cpa_authError', cpa_loaded', cpa_requests')
  /\ HookFresh(hk_data', hk_loading', hk_error', hk_sent', hk_inflight')
  /\ NotifFresh(nt_mounted', nt_health', nt_stats', nt_alertTest', nt_loading', nt_error', nt_calls')
  /\ CustFresh(cu_pc', cu_customers', cu_loading', cu_error')
  /\ ShopFresh(sh_mounted', sh_connections', sh_loading', sh_error', sh_fetching', sh_setup')
  /\ RepFresh(rp_isMounted', rp_healthStatus', rp_error', rp_retryCount', rp_isLoading',
              rp_reportResult', rp_initialTimer', rp_retryTimer', rp_started', rp_checks', rp_generating')

AuthFresh(mounted, user, token, tokenWait, meWait, loginResult, lastMe, loggedOut) ==
  /\ mounted = FALSE /\ user = Null /\ token = Null
  /\ tokenWait = 0 /\ meWait = {} /\ loginResult = Null /\ lastMe = Null
  /\ loggedOut = FALSE

\* the document at p is loaded: the user opens or reloads a page, or a
\* window.location.replace of the old document takes effect.  Every component
\* is a new instance; callbacks and timers of the old document never run.
PageLoad(p) ==
  /\ Go(p)
  /\ PagesReset
  /\ NavFresh(nav_mounted', nav_isAuthenticated', nav_userRole')
  /\ AuthFresh(ap_mounted', ap_user', ap_token', ap_tokenWait', ap_meWait', ap_loginResult', ap_lastMe',
               ap_loggedOut')
  /\ cpa_timers' = {}
  /\ UNCHANGED <<localStorage, issued>>

vars == <<browserVars, loginVars, login2Vars, navVars, cpaVars, apVars, pageVars>>

Init ==
  /\ localStorage = [k \in StorageKeys |-> Null]
  /\ route = "/"
  /\ issued = 0
  /\ pr_ran = FALSE
  /\ LoginFresh(lp_tokenWait, lp_meWait, lp_error, lp_token, lp_user)
  /\ Login2Fresh(l2_pc, l2_tok, l2_error, l2_loading)
  /\ NavFresh(nav_mounted, nav_isAuthenticated, nav_userRole)
  /\ CpaFresh(cpa_pc, cpa_loading, cpa_error, cpa_authError, cpa_loaded, cpa_requests)
  /\ HookFresh(hk_data, hk_loading, hk_error, hk_sent, hk_inflight)
  /\ NotifFresh(nt_mounted, nt_health, nt_stats, nt_alertTest, nt_loading, nt_error, nt_calls)
  /\ CustFresh(cu_pc, cu_customers, cu_loading, cu_error)
  /\ ShopFresh(sh_mounted, sh_connections, sh_loading, sh_error, sh_fetching, sh_setup)
  /\ RepFresh(rp_isMounted, rp_healthStatus, rp_error, rp_retryCount, rp_isLoading,
              rp_reportResult, rp_initialTimer, rp_retryTimer, rp_started, rp_checks, rp_generating)
  /\ AuthFresh(ap_mounted, ap_user, ap_token, ap_tokenWait, ap_meWait, ap_loginResult, ap_lastMe,
               ap_loggedOut)
  /\ cpa_timers = {}

\* the login forms, the route guard, the home page and the navigation bar, over
\* one local storage
Next ==
  \/ LoginPage_handleSubmit
  \/ \E o \in Outcomes, r \in Roles : LoginPage_tokenResponse(o, r)
  \/ \E tok \in Tokens, o \in Outcomes : LoginPage_meResponse(tok, o)
  \/ LoginPage2_handleSubmit
  \/ \E o \in Outcomes, r \in Roles : LoginPage2_tokenResponse(o, r)
  \/ \E o \in Outcomes : LoginPage2_meResponse(o)
  \/ ProtectedRoute_mount
  \/ HomePage_mount
  \/ Navigation_mount
  \/ Navigation_handleLogout
  \/ \E p \in Paths : PageLoad(p)

Spec == Init /\ [][Next]_vars

\* the admin page, with the role-aware login form and the navigation bar that
\* write auth_token and user_role
NextAdmin ==
  \/ LoginPage2_handleSubmit
  \/ \E o \in Outcomes, r \in Roles : LoginPage2_tokenResponse(o, r)
  \/ \E o \in Outcomes : LoginPage2_meResponse(o)
  \/ Navigation_mount
  \/ Navigation_handleLogout
  \/ CrossPlatformAnalytics_fetchData
  \/ \E os \in [CpaEndpoints -> CpaOutcomes] : CrossPlatformAnalytics_responses(os)
  \/ \E p \in Paths : CrossPlatformAnalytics_timer(p)
  \/ \E p \in Paths : PageLoad(p)

SpecAdmin == Init /\ [][NextAdmin]_vars

\* AuthProvider, which wraps every page
NextAuth ==
  \/ AuthProvider_mount
  \/ AuthProvider_login
  \/ \E o \in Outcomes, r \in Roles : AuthProvider_tokenResponse(o, r)
  \/ \E m \in ap_meWait, o \in Outcomes : AuthProvider_fetchUserInfo(m, o)
  \/ AuthProvider_logout
  \/ PageLoad(route)

SpecAuth == Init /\ [][NextAuth]_vars

\* a useApiCall hook on the analytics page, with the login forms
NextHook ==
  \/ useApiCall_fetchData
  \/ \E q \in hk_inflight, o \in Outcomes : useApiCall_settle(q, o)
  \/ LoginPage_handleSubmit
  \/ \E o \in Outcomes, r \in Roles : LoginPage_tokenResponse(o, r)
  \/ \E tok \in Tokens, o \in Outcomes : LoginPage_meResponse(tok, o)
  \/ LoginPage2_handleSubmit
  \/ \E o \in Outcomes, r \in Roles : LoginPage2_tokenResponse(o, r)
  \/ \E o \in Outcomes : LoginPage2_meResponse(o)
  \/ \E p \in Paths : PageLoad(p)

SpecHook == Init /\ [][NextHook]_vars

\* the notifications page and the customers page
NextNotif ==
  \/ NotificationTestingPage_mount
  \/ \E o \in Outcomes : fetchHealth(o)
  \/ \E c \in nt_calls, o \in Outcomes : fetchStats(c, o)
  \/ testNotifications
  \/ \E o \in Outcomes : testNotifications_response(o)
  \/ testAlertIntegration
  \/ \E o \in Outcomes : testAlertIntegration_response(o)
  \/ CustomersPage_mount
  \/ \E o \in Outcomes : CustomersPage_response(o)
  \/ PageLoad(route)

SpecNotif == Init /\ [][NextNotif]_vars

\* the Shopify page, with the login form and the logout that write auth_token
NextShopify ==
  \/ ShopifyPage_mount
  \/ ShopifyPage_refresh
  \/ \E o \in Outcomes, shops \in ActiveShops : fetchConnections(o, shops)
  \/ setupDemo
  \/ \E o \in Outcomes : setupDemo_response(o)
  \/ LoginPage2_handleSubmit
  \/ \E o \in Outcomes, r \in Roles : LoginPage2_tokenResponse(o, r)
  \/ \E o \in Outcomes : LoginPage2_meResponse(o)
  \/ Navigation_mount
  \/ Navigation_handleLogout
  \/ \E p \in Paths : PageLoad(p)

SpecShopify == Init /\ [][NextShopify]_vars

\* the reports page
NextReports ==
  \/ ReportsPage_mount
  \/ ReportsPage_initialTimer
  \/ ReportsPage_retryTimer
  \/ ReportsPage_refresh
  \/ \E c \in rp_checks, status \in HealthStatuses : checkSystemHealth_response(c, status)
  \/ \E c \in rp_checks, read \in BOOLEAN : checkSystemHealth_body(c, read)
  \/ \E c \in rp_checks : checkSystemHealth_reject(c)
  \/ \E c \in rp_checks : checkSystemHealth_timeout(c)
  \/ generateReport
  \/ \E o \in Outcomes : generateReport_response(o)
  \/ PageLoad(route)

SpecReports == Init /\ [][NextReports]_vars

\* the reports page with its timers running: a pending setTimeout fires unless
\* it is cleared first (the 500 ms mount timer, the 3 s retry timer and the 8 s
\* abort timer of each health check).  Nothing makes the server answer.
SpecReportsTimed ==
  /\ SpecReports
  /\ WF_vars(ReportsPage_initialTimer)
  /\ WF_vars(ReportsPage_retryTimer)
  /\ \A i \in 1..MaxChecks :
       WF_vars(\E c \in rp_checks : c.id = i /\ checkSystemHealth_timeout(c))

\* ------------------------------------------------------------------ claims
\* a response that is an HTTP failure
HttpFailure(o) == o.kind = "response" /\ ~IsOk(o.status)

\* local storage holds an access token stored by a successful login
LoggedIn == localStorage["token"] # Null \/ localStorage["auth_token"] # Null

\* C1: every request a useApiCall hook sends while local storage holds an
\* access token stored by a successful login carries that token in its
\* Authorization header.
C1_BearerWhenLoggedIn ==
  [][\A q \in hk_inflight' \ hk_inflight :
       LoggedIn => q.auth \in {localStorage["token"], localStorage["auth_token"]} \ {Null}]_vars

\* what a /token continuation of either login form did to local storage, given
\* the set of outcomes for which the access token is to be stored
LoginStores(storing) ==
  \A o \in Outcomes, r \in Roles :
    /\ LoginPage_tokenResponse(o, r) =>
         /\ o \in storing <=> localStorage'["token"] = NextToken(r)
         /\ o \notin storing => localStorage' = localStorage
    /\ LoginPage2_tokenResponse(o, r) =>
         /\ o \in storing <=> localStorage'["auth_token"] = NextToken(r)
         /\ o \notin storing => localStorage' = localStorage

\* the /token responses that are OK, and those that are OK with a JSON body
ResponseOk == {o \in Outcomes : o.kind = "response" /\ IsOk(o.status)}

ResponseOkAndParsed == {o \in Outcomes : Parsed(o) /\ IsOk(o.status)}

\* C2 as stated: a login-form submission stores the access token returned by
\* /token if and only if the /token response is OK, and leaves local storage
\* unchanged otherwise.
C2_TokenStoredIffOk == [][LoginStores(ResponseOk)]_vars

\* C2 amended: the access token is stored if and only if the /token response
\* is OK and its body parses as JSON; otherwise local storage is unchanged.
C2_TokenStoredIffOkAndParsed == [][LoginStores(ResponseOkAndParsed)]_vars

\* both login forms have stored a token
C2_Witness == localStorage["token"] # Null /\ localStorage["auth_token"] # Null

\* C3: when ProtectedRoute mounts and local storage holds no token, it records
\* the pathname under 'postLoginRedirect' and replaces the route with /login;
\* when a token is present it changes neither local storage nor the route.
C3_ProtectedRouteGuard ==
  [][(~pr_ran /\ pr_ran') =>
       IF localStorage["token"] = Null
       THEN /\ localStorage' = SetItem(localStorage, "postLoginRedirect", route)
            /\ route' = "/login"
       ELSE /\ localStorage' = localStorage
            /\ route' = route]_vars

\* the guard has sent a visitor without token to /login
C3_Witness ==
  /\ pr_ran /\ route = "/login"
  /\ localStorage["token"] = Null
  /\ localStorage["postLoginRedirect"] \in ProtectedPaths

\* C4: CrossPlatformAnalytics sends its requests only if local storage holds an
\* auth_token and user_role is 'admin', each with that token; in every other
\* case its mount effect sends none, sets an access error and redirects: to
\* /login at once without a token, to /segmentation by its timer otherwise.
C4_AdminOnlyRequests ==
  [][LET token == localStorage["auth_token"]
         admitted == token # Null /\ localStorage["user_role"] = "admin"
     IN /\ (cpa_requests' # cpa_requests /\ cpa_requests' # {}) =>
             /\ admitted
             /\ cpa_requests' = {[ep |-> e, auth |-> token] : e \in CpaEndpoints}
        /\ (cpa_pc = "unmounted" /\ cpa_pc' # "unmounted" /\ ~admitted) =>
             /\ cpa_requests' = {}
             /\ cpa_authError' # Null
             /\ IF token = Null
                THEN route' = "/login"
                ELSE "/segmentation" \in cpa_timers']_vars

\* a logged-in user who is not admin was refused
C4_Witness ==
  /\ localStorage["auth_token"] # Null /\ localStorage["user_role"] = "user"
  /\ cpa_pc = "done" /\ cpa_authError # Null /\ cpa_requests = {}
  /\ "/segmentation" \in cpa_timers

\* C5: when a request of the notifications page (fetchHealth, fetchStats,
\* testNotifications, testAlertIntegration) or of CustomersPage receives a
\* non-OK response, the component's error becomes a non-null string and the
\* response body is not stored as its data.
C5_HttpFailureSurfaced ==
  [][\A o \in Outcomes : HttpFailure(o) =>
       /\ ( \/ fetchHealth(o)
            \/ \E c \in nt_calls : fetchStats(c, o)
            \/ testNotifications_response(o)
            \/ testAlertIntegration_response(o) )
          => /\ nt_error' # Null
             /\ <<nt_health, nt_stats, nt_alertTest>>' = <<nt_health, nt_stats, nt_alertTest>>
       /\ CustomersPage_response(o)
          => /\ cu_error' # Null
             /\ cu_customers' = cu_customers]_vars

\* C9: after a fetchConnections call whose response is OK, no error message
\* is shown and the Connected Stores panel lists the shops the server returned.
C9_RefreshRecovers ==
  [][\A o \in Outcomes, shops \in ActiveShops :
       (Parsed(o) /\ IsOk(o.status) /\ fetchConnections(o, shops))
         => (sh_error' = Null /\ ConnectedStores(shops)')]_vars

\* C6: while a request of a useApiCall hook is in flight its loading flag is
\* true, and once all of its requests have settled loading is false.
C6_LoadingWhileInFlight ==
  /\ hk_inflight # {} => hk_loading
  /\ (hk_sent > 0 /\ hk_inflight = {}) => ~hk_loading

\* C7 as stated: the client never sends a request on its own after a failure;
\* every request is sent on a user action or a page mount.
C7_NoRetry == \A c \in rp_checks : c.cause \in {"mount", "user"}

\* C7 amended: the one request sent again without a user action is the health
\* check of the reports page: the timer of the auto-retry effect sends it, and
\* only while the page holds an error, has no health status and retryCount is
\* below 2; it counts the retry.
C7_OnlyBoundedHealthRetry ==
  [][\A c \in rp_checks' \ rp_checks :
       (c.phase = "fetch" /\ c.cause = "retry") =>
         /\ rp_retryTimer
         /\ rp_error # Null /\ rp_healthStatus = Null
         /\ rp_retryCount < RetryLimit
         /\ rp_retryCount' = rp_retryCount + 1]_vars

\* an automatic retry of the health check is in flight
C7_Witness == \E c \in rp_checks : c.cause = "retry" /\ c.phase = "fetch"

\* C8 as stated: no request is ever cancelled by the front end, so no health
\* check ends as timed out.
C8_NoCancellation == rp_error # TimedOutMessage

\* C8 amended: the one cancellation is that of checkSystemHealth, and it only
\* hits a health request whose response has not arrived.
C8_AbortOnlyUnanswered ==
  [][\A c \in rp_checks :
       ((\A d \in rp_checks' : d.id # c.id) /\ rp_error' = TimedOutMessage)
         => c.phase = "fetch"]_vars

\* a health check was aborted
C8_Witness == rp_error = TimedOutMessage

\* C10: whenever the /me request of AuthProvider for a token answers non-OK or
\* fails, the provider removes auth_token from local storage and sets token and
\* user to null, for the token found at mount and for the token of a login.
C10_FailedMeClears ==
  [][\A m \in ap_meWait, o \in Outcomes :
       (~(Parsed(o) /\ IsOk(o.status)) /\ AuthProvider_fetchUserInfo(m, o)) =>
         /\ localStorage'["auth_token"] = Null
         /\ ap_token' = Null
         /\ ap_user' = Null]_vars

\* the /me request of a token has failed and the session is cleared
C10_Witness ==
  /\ ap_lastMe = "failed" /\ issued > 0
  /\ localStorage["auth_token"] = Null /\ ap_token = Null /\ ap_user = Null

\* C11: once login() has resolved to true, auth_token is in local storage and
\* isAuthenticated() is true.
C11_TrueMeansAuthenticated ==
  [][\A m \in ap_meWait, o \in Outcomes :
       (m.login /\ AuthProvider_fetchUserInfo(m, o)) =>
         /\ ap_loginResult' = "true"
         /\ localStorage'["auth_token"] # Null
         /\ ap_user' # Null /\ ap_token' # Null]_vars

\* user and token are null, isAuthenticated() and isAdmin() are false and
\* local storage holds no auth_token
LoggedOut(user, token, ls) ==
  /\ user = Null /\ token = Null
  /\ ~(user # Null /\ token # Null) /\ user # "admin"
  /\ ls["auth_token"] = Null

\* C12: after logout() and until the next call of login(), the user stays
\* logged out: a /me request that completes in this logged-out state leaves
\* user and token null, isAuthenticated() and isAdmin() false and local storage
\* without auth_token.
C12_LogoutSticks ==
  [][\A m \in ap_meWait, o \in Outcomes :
       (/\ ap_loggedOut /\ LoggedOut(ap_user, ap_token, localStorage)
        /\ AuthProvider_fetchUserInfo(m, o)) =>
         LoggedOut(ap_user', ap_token', localStorage')]_vars

\* C13: a non-OK or failed /me response for a token other than the one local
\* storage holds, which a later login stored, leaves that newer token in
\* local storage and in the provider's state.
C13_OldMeKeepsNewToken ==
  [][\A m \in ap_meWait, o \in Outcomes :
       (/\ ~(Parsed(o) /\ IsOk(o.status))
        /\ localStorage["auth_token"] \notin {Null, m.tok}
        /\ AuthProvider_fetchUserInfo(m, o)) =>
         /\ localStorage'["auth_token"] = localStorage["auth_token"]
         /\ ap_token' = ap_token]_vars

\* C14: whenever local storage holds both auth_token and user_role, user_role
\* is the role /me reports for that token; in particular it is 'admin' only if
\* the stored token was issued to an admin.
C14_RoleOfStoredToken ==
  (localStorage["auth_token"] # Null /\ localStorage["user_role"] # Null)
    => localStorage["user_role"] = RoleOf(localStorage["auth_token"])

\* C15: a user who has logged in and has not logged out, so that local storage
\* holds the access token of the login, is not sent to /login by ProtectedRoute
\* when a protected page opens.
C15_LoggedInNotRedirected ==
  [][(LoggedIn /\ ~pr_ran /\ pr_ran') => route' # "/login"]_vars

\* C16: once all requests of a useApiCall hook have settled and no error is
\* held, the data held is that of the request issued last.
C16_LatestRequestWins ==
  (hk_sent > 0 /\ hk_inflight = {} /\ hk_error = Null) => hk_data = hk_sent

\* C17: when a request of a useApiCall hook gets a non-OK response or rejects,
\* error becomes a non-null string, 'HTTP error! status: <code>' for a non-OK
\* response, and the data held is unchanged; when the next request of the hook
\* starts, error is reset to null.
C17_ErrorStringDataKept ==
  [][/\ \A q \in hk_inflight, o \in Outcomes :
          (~(Parsed(o) /\ IsOk(o.status)) /\ useApiCall_settle(q, o)) =>
            /\ hk_error' # Null
            /\ HttpFailure(o) => hk_error' = "HTTP error! status: " \o ToString(o.status)
            /\ hk_data' = hk_data
     /\ hk_sent' = hk_sent + 1 => hk_error' = Null]_vars

\* a request answered 500 after data was loaded: the error is shown next to
\* the data of the earlier request
C17_Witness ==
  /\ hk_error = "HTTP error! status: 500"
  /\ hk_data # 0 /\ hk_data < hk_sent /\ hk_inflight = {}

\* an automatic retry of the health check starts in this step
RetryStarts == \E c \in rp_checks' \ rp_checks : c.phase = "fetch" /\ c.cause = "retry"

\* retryCount is set back to 0: the page is mounted anew, or Refresh Status /
\* Retry Connection is clicked
RetryCountReset ==
  /\ rp_retryCount' = 0
  /\ ~rp_isMounted' \/ \E c \in rp_checks' \ rp_checks : c.phase = "fetch" /\ c.cause = "user"

\* C18: retryCount never exceeds 2; every automatic retry starts with
\* retryCount below 2 and adds one to it, and retryCount changes in no other
\* way except by a reset, so that at most 2 retries start between two resets.
C18_RetriesBounded ==
  /\ [](rp_retryCount <= RetryLimit)
  /\ [][/\ RetryStarts => (rp_retryCount < RetryLimit /\ rp_retryCount' = rp_retryCount + 1)
        /\ rp_retryCount' # rp_retryCount => (RetryStarts \/ RetryCountReset)]_vars

\* both automatic retries are used up and the health check has failed again
C18_Witness ==
  /\ rp_retryCount = RetryLimit /\ rp_error # Null /\ rp_healthStatus = Null
  /\ rp_checks = {} /\ ~rp_retryTimer

\* C19: every call of checkSystemHealth comes to an end.
C19_HealthCheckEnds ==
  \A i \in 1..MaxChecks :
    (\E c \in rp_checks : c.id = i) ~> ~(\E c \in rp_checks : c.id = i)

====
